---- MODULE Spec2Model ----
(***************************************************************************)
(* Model of vtt_processor.py: the timecode rewriters of FileProcessor, the *)
(* name derivation and naming policies, and the batch job run by           *)
(* VTTTimecodeZeroerApp.  Text is modelled as sequences of one-character   *)
(* strings so that the regular expressions are matched character by        *)
(* character, as re does.                                                  *)
(***************************************************************************)
EXTENDS Integers, Sequences, FiniteSets, TLC

VARIABLES
    \* ---- FileProcessor.adjust_timecode_vtt applied to one line ----
    line,           \* the input line
    adjusted,       \* adjust_timecode_vtt(line)
    adjusted2,      \* adjust_timecode_vtt(adjust_timecode_vtt(line))
    lpc,            \* "in" | "once" | "twice"
    \* ---- FileProcessor.convert_srt_to_vtt applied to one file ----
    srt_content,    \* characters of the source file
    vtt_content,    \* text written to the destination file
    srt_result,     \* "none" | "ok" (returned True) | "fail" (returned False)
    \* ---- file selection and name derivation in process_files ----
    file_name,      \* an entry of os.listdir(input_dir)
    choice,         \* "vtt" | "srt"
    selected,       \* "none" | "yes" | "no": the entry is in `files`
    base_name,      \* the name handed to rename_file
    \* ---- VTTTimecodeZeroerApp.rename_file ----
    rn_file_name,   \* argument file_name
    rn_index,       \* argument index
    rn_output_dir,  \* argument output_directory
    rn_sequential,  \* self.sequential_var.get()
    rn_rename,      \* self.rename_var.get()
    rn_prefix,      \* self.prefix_var.get()
    rn_answer,      \* what simpledialog.askstring returns when it is called
    rn_prompted,    \* askstring was called
    rn_path,        \* "none" or <<the returned path>>
    \* ---- process_files: the output paths of one batch ----
    pf_choice,      \* argument choice
    pf_files,       \* local files: the matching entries in the order of os.listdir
    pf_output_dir,  \* argument output_dir
    pf_sequential,  \* self.sequential_var.get()
    pf_rename,      \* self.rename_var.get()
    pf_prefix,      \* self.prefix_var.get()
    pf_index,       \* index of the file the loop over `files` is at
    pf_paths,       \* output_path of the files the loop has passed, by index
    \* ---- VTTTimecodeZeroerApp: the batch job ----
    is_processing,  \* self.is_processing
    closed,         \* the window was destroyed (on_closing)
    dialog,         \* the message box shown last since the last accepted start
    live_threads,   \* processing threads started and not yet finished
    tpc,            \* where the processing thread is: "none" | "list" | "submit" | "collect" | "seq"
    cpu_count,      \* what os.cpu_count() returned to the job, 0 for None (and before the call)
    n_files,        \* matching entries of the input directory
    use_threads,    \* self.use_threads_var.get()
    sequential_var, \* self.sequential_var.get()
    rename_var,     \* self.rename_var.get()
    total_files,    \* local total_files
    max_workers,    \* size of the ThreadPoolExecutor, 0 when there is none
    next_index,     \* index of the file the loop over `files` is at
    prompt,         \* index of the file whose askstring dialog is open, else 0
    answered,       \* the open dialog got its answer
    prompt_log,     \* the job's askstring calls, their returns and its executor.submit calls, oldest first
    collected,      \* futures whose result() was taken
    processed_count,
    failed_count,
    task,           \* per file: "new" | "queued" | "running" | "ok" | "fail"
    conv,           \* per file: how often its conversion was started
    after_queue,    \* callbacks handed to self.after(0, ...), oldest first, grouped by the step that queued them
    progress_var,   \* self.progress_var as a fraction [num, den]
    progress_max,   \* maximum of self.progress_bar
    progress_label, \* 0 for "Ready", else N of "Processing N files..."
    status_var,     \* self.status_var
    emitted,        \* the progress emissions of the job, oldest first
    completion      \* "none" or the counts <<processed, failed>> of the completion message

lineVars == <<line, adjusted, adjusted2, lpc>>
srtVars == <<srt_content, vtt_content, srt_result>>
deriveVars == <<file_name, choice, selected, base_name>>
renameVars == <<rn_file_name, rn_index, rn_output_dir, rn_sequential, rn_rename,
                rn_prefix, rn_answer, rn_prompted, rn_path>>
guiVars == <<is_processing, closed, dialog, progress_var, progress_max,
             progress_label, status_var>>
settingVars == <<cpu_count, n_files, use_threads, sequential_var, rename_var>>
threadVars == <<live_threads, tpc, total_files, max_workers, next_index, prompt,
                answered, prompt_log, collected, processed_count, failed_count, emitted,
                completion>>
poolVars == <<task, conv>>
batchVars == <<guiVars, settingVars, threadVars, poolVars, after_queue>>
pathVars == <<pf_choice, pf_files, pf_output_dir, pf_sequential, pf_rename,
              pf_prefix, pf_index, pf_paths>>
pureVars == <<lineVars, srtVars, deriveVars, renameVars, pathVars>>
vars == <<line, adjusted, adjusted2, lpc, srt_content, vtt_content, srt_result,
          file_name, choice, selected, base_name,
          rn_file_name, rn_index, rn_output_dir, rn_sequential, rn_rename,
          rn_prefix, rn_answer, rn_prompted, rn_path,
          pf_choice, pf_files, pf_output_dir, pf_sequential, pf_rename, pf_prefix,
          pf_index, pf_paths,
          is_processing, closed, dialog, live_threads, tpc, cpu_count, n_files,
          use_threads, sequential_var, rename_var, total_files, max_workers,
          next_index, prompt, answered, prompt_log, collected, processed_count,
          failed_count, task, conv, after_queue, progress_var, progress_max, progress_label,
          status_var, emitted, completion>>

\* ------------------------------------------------------------------------
\* Bounds
MaxLineParts == 3      \* number of fragments a generated line is built from
MaxSrtParts == 3       \* number of fragments a generated SRT file is built from
MaxNameParts == 4      \* number of fragments a generated file name is built from
MaxIndex == 11         \* largest index handed to rename_file
MaxFiles == 3          \* largest number of matching files in the input directory

\* ------------------------------------------------------------------------
\* Text helpers
Digits == {"0", "1", "2", "3", "4", "5", "6", "7", "8", "9"}

RECURSIVE Concat(_)
Concat(ss) == IF ss = <<>> THEN <<>> ELSE Head(ss) \o Concat(Tail(ss))

Slice(s, a, b) == IF a > b THEN <<>> ELSE SubSeq(s, a, b)

\* re: the class \d is written "\\d", every other pattern element is a
\* literal character.
TC(sep) == <<"\\d", "\\d", ":", "\\d", "\\d", ":", "\\d", "\\d", sep, "\\d", "\\d", "\\d">>

VTT_TIMECODE_PATTERN == TC(".") \o <<" ", "-", "-", ">", " ">> \o TC(".")

\* pattern.match(s, i - 1): the pattern matches s at (1-based) position i
MatchAt(pat, s, i) ==
    /\ i >= 1
    /\ i + Len(pat) - 1 <= Len(s)
    /\ \A k \in 1..Len(pat) :
          IF pat[k] = "\\d" THEN s[i + k - 1] \in Digits
                            ELSE s[i + k - 1] = pat[k]

\* pattern.search(s) scanning from position `from`: start of the leftmost
\* match, 0 when there is none
SearchFrom(pat, s, from) ==
    LET hits == {i \in from..Len(s) : MatchAt(pat, s, i)}
    IN  IF hits = {} THEN 0 ELSE CHOOSE i \in hits : \A j \in hits : i <= j

Search(pat, s) == SearchFrom(pat, s, 1)

\* pattern.sub(repl, s) for a replacement without group references: every
\* leftmost non-overlapping match, left to right, is replaced by repl
RECURSIVE SubConst(_, _, _, _)
SubConst(pat, repl, s, from) ==
    LET i == SearchFrom(pat, s, from)
    IN  IF i = 0 THEN Slice(s, from, Len(s))
        ELSE Slice(s, from, i - 1) \o repl \o SubConst(pat, repl, s, i + Len(pat))

\* adjust_timecode_vtt with the minute groups read from the hour groups
adjust_timecode_vtt_wrong_group(l) ==
    LET m == Search(VTT_TIMECODE_PATTERN, l)
    IN  IF m # 0
        THEN LET hh1 == Slice(l, m, m + 1)
                 ss1 == Slice(l, m + 6, m + 11)
                 hh2 == Slice(l, m + 17, m + 18)
                 ss2 == Slice(l, m + 23, m + 28)
                 new_timecode == <<"0", "0", ":">> \o hh1 \o <<":">> \o ss1
                                 \o <<" ", "-", "-", ">", " ">>
                                 \o <<"0", "0", ":">> \o hh2 \o <<":">> \o ss2
             IN  SubConst(VTT_TIMECODE_PATTERN, new_timecode, l, 1)
        ELSE l

\* FileProcessor.adjust_timecode_vtt
adjust_timecode_vtt(l) ==
    LET m == Search(VTT_TIMECODE_PATTERN, l)
    IN  IF m # 0
        THEN LET mm1 == Slice(l, m + 3, m + 4)       \* group(2)
                 ss1 == Slice(l, m + 6, m + 11)      \* group(3)
                 mm2 == Slice(l, m + 20, m + 21)     \* group(5)
                 ss2 == Slice(l, m + 23, m + 28)     \* group(6)
                 new_timecode == <<"0", "0", ":">> \o mm1 \o <<":">> \o ss1
                                 \o <<" ", "-", "-", ">", " ">>
                                 \o <<"0", "0", ":">> \o mm2 \o <<":">> \o ss2
             IN  SubConst(VTT_TIMECODE_PATTERN, new_timecode, l, 1)
        ELSE l

\* ------------------------------------------------------------------------
\* Input lines: concatenations of at most MaxLineParts fragments
Arrow == <<" ", "-", "-", ">", " ">>
RangeA == <<"0","1",":","0","2",":","0","3",".","4","5","6">> \o Arrow
          \o <<"0","1",":","0","2",":","0","5",".","7","8","9">>
RangeB == <<"1","2",":","3","4",":","5","6",".","7","8","9">> \o Arrow
          \o <<"2","3",":","4","5",":","0","1",".","2","3","4">>
RangeZ == <<"0","0",":","0","0",":","0","1",".","0","0","0">> \o Arrow
          \o <<"0","0",":","0","0",":","0","2",".","5","0","0">>
\* the tail of a range: appended to a range it forms a second occurrence of
\* the pattern that starts on the last two digits of the first
RangeTail == <<":","1","1",":","1","2",".","0","0","0">> \o Arrow
             \o <<"0","3",":","0","4",":","0","5",".","6","7","8">>
\* an SRT range: no match for the VTT pattern
RangeSrt == <<"0","1",":","0","2",":","0","3",",","4","5","6">> \o Arrow
            \o <<"0","1",":","0","2",":","0","5",",","7","8","9">>

LineFragments ==
    {RangeA, RangeB, RangeZ, RangeTail, RangeSrt, <<"7">>, <<"x">>, <<" ">>, <<"\n">>}

RECURSIVE SeqsUpTo(_, _)
SeqsUpTo(S, n) ==
    IF n = 0 THEN {<<>>}
    ELSE LET shorter == SeqsUpTo(S, n - 1)
         IN  shorter \cup {Append(p, f) : p \in shorter, f \in S}

Lines == {Concat(p) : p \in SeqsUpTo(LineFragments, MaxLineParts)}

\* ------------------------------------------------------------------------
LineIdle ==
    /\ line = <<>>
    /\ adjusted = <<>>
    /\ adjusted2 = <<>>
    /\ lpc = "in"

SrtIdle ==
    /\ srt_content = <<>>
    /\ vtt_content = <<>>
    /\ srt_result = "none"

\* the application right after __init__ and create_widgets
BatchIdle ==
    /\ is_processing = FALSE
    /\ closed = FALSE
    /\ dialog = "none"
    /\ live_threads = 0
    /\ tpc = "none"
    /\ cpu_count = 0
    /\ n_files = 0
    /\ use_threads = TRUE
    /\ sequential_var = FALSE
    /\ rename_var = FALSE
    /\ total_files = 0
    /\ max_workers = 0
    /\ next_index = 1
    /\ prompt = 0
    /\ answered = FALSE
    /\ prompt_log = <<>>
    /\ collected = 0
    /\ processed_count = 0
    /\ failed_count = 0
    /\ task = [f \in 1..MaxFiles |-> "new"]
    /\ conv = [f \in 1..MaxFiles |-> 0]
    /\ after_queue = <<>>
    /\ progress_var = [num |-> 0, den |-> 1]
    /\ progress_max = 100
    /\ progress_label = 0
    /\ status_var = "Ready"
    /\ emitted = <<>>
    /\ completion = "none"

DeriveIdle ==
    /\ file_name = <<>>
    /\ choice = "vtt"
    /\ selected = "none"
    /\ base_name = <<>>

RenameIdle ==
    /\ rn_file_name = <<>>
    /\ rn_index = 1
    /\ rn_output_dir = <<>>
    /\ rn_sequential = FALSE
    /\ rn_rename = FALSE
    /\ rn_prefix = <<>>
    /\ rn_answer = [given |-> FALSE, text |-> <<>>]
    /\ rn_prompted = FALSE
    /\ rn_path = "none"

PathsIdle ==
    /\ pf_choice = "vtt"
    /\ pf_files = <<>>
    /\ pf_output_dir = <<>>
    /\ pf_sequential = FALSE
    /\ pf_rename = FALSE
    /\ pf_prefix = <<>>
    /\ pf_index = 1
    /\ pf_paths = <<>>

InitLine ==
    /\ line \in Lines
    /\ adjusted = <<>>
    /\ adjusted2 = <<>>
    /\ lpc = "in"
    /\ SrtIdle
    /\ DeriveIdle
    /\ RenameIdle
    /\ PathsIdle
    /\ BatchIdle

\* process_vtt_file's loop body: outfile.write(adjust_timecode_vtt(line))
Adjust ==
    /\ lpc = "in"
    /\ adjusted' = adjust_timecode_vtt(line)
    /\ lpc' = "once"
    /\ UNCHANGED <<line, adjusted2>>
    /\ UNCHANGED <<srtVars, deriveVars, renameVars, pathVars, batchVars>>

\* the rewrite applied to its own output (a processed file processed again)
AdjustAgain ==
    /\ lpc = "once"
    /\ adjusted2' = adjust_timecode_vtt(adjusted)
    /\ lpc' = "twice"
    /\ UNCHANGED <<line, adjusted>>
    /\ UNCHANGED <<srtVars, deriveVars, renameVars, pathVars, batchVars>>

NextLine == Adjust \/ AdjustAgain

SpecLine == InitLine /\ [][NextLine]_vars


\* ------------------------------------------------------------------------
\* SRT to VTT conversion
SRT_TIMECODE_PATTERN == TC(",")

\* pattern.sub(lambda m: f"{m.group(1)}:{m.group(2)}:{m.group(3)}.{m.group(4)}", s)
RECURSIVE SubSrt(_, _)
SubSrt(s, from) ==
    LET i == SearchFrom(SRT_TIMECODE_PATTERN, s, from)
    IN  IF i = 0 THEN Slice(s, from, Len(s))
        ELSE Slice(s, from, i - 1)
             \o Slice(s, i, i + 1) \o <<":">> \o Slice(s, i + 3, i + 4) \o <<":">>
             \o Slice(s, i + 6, i + 7) \o <<".">> \o Slice(s, i + 9, i + 11)
             \o SubSrt(s, i + Len(SRT_TIMECODE_PATTERN))

\* the substitution stopping after the first occurrence of a line (count=1)
srt_sub_line_first_only(l) ==
    LET i == Search(SRT_TIMECODE_PATTERN, l)
    IN  IF i = 0 THEN l
        ELSE Slice(l, 1, i + 7) \o <<".">> \o Slice(l, i + 9, Len(l))

\* the loop body of convert_srt_to_vtt: the line that is written
srt_sub_line(l) == SubSrt(l, 1)

\* open(path, "r"): text mode with universal newlines, "\r\n" and a lone
\* "\r" are read as "\n"
RECURSIVE TextRead(_)
TextRead(s) ==
    LET crs == {j \in 1..Len(s) : s[j] = "\r"}
    IN  IF crs = {} THEN s
        ELSE LET i == CHOOSE j \in crs : \A k \in crs : j <= k
                 rest == IF i < Len(s) /\ s[i + 1] = "\n" THEN i + 2 ELSE i + 1
             IN  Slice(s, 1, i - 1) \o <<"\n">> \o TextRead(Slice(s, rest, Len(s)))

\* `for line in srt_file`: the text cut after every "\n"
RECURSIVE SplitLines(_)
SplitLines(t) ==
    IF t = <<>> THEN <<>>
    ELSE LET ends == {j \in 1..Len(t) : t[j] = "\n"}
             e == IF ends = {} THEN Len(t)
                  ELSE CHOOSE j \in ends : \A k \in ends : j <= k
         IN  <<Slice(t, 1, e)>> \o SplitLines(Slice(t, e + 1, Len(t)))

VttHeader == <<"W", "E", "B", "V", "T", "T", "\n", "\n">>

\* what has been written once the first n lines went through the loop
RECURSIVE WrittenLines(_, _)
WrittenLines(ls, n) ==
    IF n = 0 THEN <<>>
    ELSE WrittenLines(ls, n - 1) \o srt_sub_line(ls[n])

SrtRange == <<"0","0",":","0","0",":","0","1",",","0","0","0">> \o Arrow
            \o <<"0","0",":","0","0",":","0","2",",","5","0","0">>
SrtTime == <<"1","2",":","3","4",":","5","6",",","7","8","9">>
\* appended to a timecode it forms a second occurrence of the SRT pattern
\* that starts on the last two digits of the first
SrtTail == <<":","2","2",":","3","3",",","4","4","4">>
VttTime == <<"0","1",":","0","2",":","0","3",".","4","5","6">>

SrtFragments ==
    {SrtRange, SrtTime, SrtTail, VttTime, <<"1">>, <<"H">>, <<"\n">>, <<"\r">>}

SrtFiles == {Concat(p) : p \in SeqsUpTo(SrtFragments, MaxSrtParts)}

InitSrt ==
    /\ srt_content \in SrtFiles
    /\ vtt_content = <<>>
    /\ srt_result = "none"
    /\ LineIdle
    /\ DeriveIdle
    /\ RenameIdle
    /\ PathsIdle
    /\ BatchIdle

\* convert_srt_to_vtt, no exception: header, then every line rewritten
ConvertSrtOk ==
    /\ srt_result = "none"
    /\ \E ls \in {SplitLines(TextRead(srt_content))} :
           vtt_content' = VttHeader \o WrittenLines(ls, Len(ls))
    /\ srt_result' = "ok"
    /\ UNCHANGED srt_content
    /\ UNCHANGED <<lineVars, deriveVars, renameVars, pathVars, batchVars>>

\* convert_srt_to_vtt, an exception in open(): nothing is written
ConvertSrtOpenFails ==
    /\ srt_result = "none"
    /\ vtt_content' = <<>>
    /\ srt_result' = "fail"
    /\ UNCHANGED srt_content
    /\ UNCHANGED <<lineVars, deriveVars, renameVars, pathVars, batchVars>>

\* convert_srt_to_vtt, an exception while reading or writing line n + 1:
\* the header and the first n lines stay in the destination
ConvertSrtIoError ==
    /\ srt_result = "none"
    /\ \E ls \in {SplitLines(TextRead(srt_content))} :
           \E n \in 0..(Len(ls) - 1) :
               vtt_content' = VttHeader \o WrittenLines(ls, n)
    /\ srt_result' = "fail"
    /\ UNCHANGED srt_content
    /\ UNCHANGED <<lineVars, deriveVars, renameVars, pathVars, batchVars>>

NextSrt == ConvertSrtOk \/ ConvertSrtOpenFails \/ ConvertSrtIoError

SpecSrt == InitSrt /\ [][NextSrt]_vars

\* ------------------------------------------------------------------------
\* File selection and name derivation
LowerChar(c) ==
    CASE c = "A" -> "a" [] c = "B" -> "b" [] c = "C" -> "c" [] c = "D" -> "d"
      [] c = "E" -> "e" [] c = "F" -> "f" [] c = "G" -> "g" [] c = "H" -> "h"
      [] c = "I" -> "i" [] c = "J" -> "j" [] c = "K" -> "k" [] c = "L" -> "l"
      [] c = "M" -> "m" [] c = "N" -> "n" [] c = "O" -> "o" [] c = "P" -> "p"
      [] c = "Q" -> "q" [] c = "R" -> "r" [] c = "S" -> "s" [] c = "T" -> "t"
      [] c = "U" -> "u" [] c = "V" -> "v" [] c = "W" -> "w" [] c = "X" -> "x"
      [] c = "Y" -> "y" [] c = "Z" -> "z" [] OTHER -> c

\* str.lower
Lower(s) == [j \in 1..Len(s) |-> LowerChar(s[j])]

\* str.endswith
EndsWith(s, suffix) ==
    /\ Len(suffix) <= Len(s)
    /\ Slice(s, Len(s) - Len(suffix) + 1, Len(s)) = suffix

\* str.replace(old, new) for a non-empty old: every non-overlapping
\* occurrence, left to right
RECURSIVE Replace(_, _, _)
Replace(s, old, new) ==
    LET hits == {i \in 1..(Len(s) - Len(old) + 1) : Slice(s, i, i + Len(old) - 1) = old}
    IN  IF hits = {} THEN s
        ELSE LET i == CHOOSE h \in hits : \A g \in hits : h <= g
             IN  Slice(s, 1, i - 1) \o new
                 \o Replace(Slice(s, i + Len(old), Len(s)), old, new)

ExtVtt == <<".", "v", "t", "t">>
ExtSrt == <<".", "s", "r", "t">>
ExtMp4Vtt == <<".", "m", "p", "4", ".", "v", "t", "t">>

\* the filter of the list comprehension over os.listdir(input_dir)
IsSelected(ch, name) ==
    IF ch = "vtt" THEN EndsWith(Lower(name), ExtVtt)
                  ELSE EndsWith(Lower(name), ExtSrt)

\* the base name of process_files
DeriveBaseName(ch, name) ==
    IF ch = "vtt" THEN Replace(Replace(name, ExtMp4Vtt, <<>>), ExtVtt, <<>>)
                  ELSE Replace(name, ExtSrt, <<>>)

NameFragments ==
    {<<"a">>, ExtVtt, <<".", "V", "T", "T">>, <<".", "m", "p", "4">>,
     ExtSrt, <<".", "S", "r", "t">>}

FileNames == {Concat(p) : p \in SeqsUpTo(NameFragments, MaxNameParts)} \ {<<>>}

InitDerive ==
    /\ file_name \in FileNames
    /\ choice \in {"vtt", "srt"}
    /\ selected = "none"
    /\ base_name = <<>>
    /\ LineIdle
    /\ SrtIdle
    /\ RenameIdle
    /\ PathsIdle
    /\ BatchIdle

\* the entry is not picked up by the batch
SkipEntry ==
    /\ selected = "none"
    /\ ~IsSelected(choice, file_name)
    /\ selected' = "no"
    /\ UNCHANGED <<file_name, choice, base_name>>
    /\ UNCHANGED <<lineVars, srtVars, renameVars, pathVars, batchVars>>

\* the entry is in `files` and its base name is derived
DeriveEntry ==
    /\ selected = "none"
    /\ IsSelected(choice, file_name)
    /\ selected' = "yes"
    /\ base_name' = DeriveBaseName(choice, file_name)
    /\ UNCHANGED <<file_name, choice>>
    /\ UNCHANGED <<lineVars, srtVars, renameVars, pathVars, batchVars>>

NextDerive == SkipEntry \/ DeriveEntry

SpecDerive == InitDerive /\ [][NextDerive]_vars

\* ------------------------------------------------------------------------
\* rename_file
Whitespace == {" ", "\t", "\n", "\r"}

\* str.strip
RECURSIVE LStrip(_)
LStrip(s) == IF s # <<>> /\ Head(s) \in Whitespace THEN LStrip(Tail(s)) ELSE s
RECURSIVE RStrip(_)
RStrip(s) ==
    IF s # <<>> /\ s[Len(s)] \in Whitespace THEN RStrip(Slice(s, 1, Len(s) - 1)) ELSE s
Strip(s) == RStrip(LStrip(s))

DigitChar(d) ==
    CASE d = 0 -> "0" [] d = 1 -> "1" [] d = 2 -> "2" [] d = 3 -> "3" [] d = 4 -> "4"
      [] d = 5 -> "5" [] d = 6 -> "6" [] d = 7 -> "7" [] d = 8 -> "8" [] d = 9 -> "9"

\* f"{index}" for a non-negative int
RECURSIVE ToStr(_)
ToStr(n) == IF n < 10 THEN <<DigitChar(n)>>
            ELSE ToStr(n \div 10) \o <<DigitChar(n % 10)>>

\* os.path.join(a, b) of posixpath
PathJoin(a, b) ==
    IF b # <<>> /\ Head(b) = "/" THEN b
    ELSE IF a = <<>> \/ a[Len(a)] = "/" THEN a \o b
    ELSE a \o <<"/">> \o b

DotVtt == <<".", "v", "t", "t">>

\* rename_file asks the user: neither branch before the prompt returned
AsksUser(seqv, renv) == ~seqv /\ renv

\* rename_file with the rename option tested before sequential numbering
rename_file_rename_first(output_directory, fname, index, seqv, renv, prefix, ans) ==
    IF renv
    THEN LET new_name == IF ~ans.given \/ Strip(ans.text) = <<>>
                         THEN fname
                         ELSE Strip(ans.text) \o <<"_">> \o ToStr(index)
         IN  PathJoin(output_directory, new_name \o DotVtt)
    ELSE IF seqv
    THEN PathJoin(output_directory, Strip(prefix) \o ToStr(index) \o DotVtt)
    ELSE PathJoin(output_directory, fname \o <<"_">> \o ToStr(index) \o DotVtt)

\* rename_file that leaves the index out of the default name
rename_file_without_index(output_directory, fname, index, seqv, renv, prefix, ans) ==
    IF seqv
    THEN PathJoin(output_directory, Strip(prefix) \o ToStr(index) \o DotVtt)
    ELSE IF renv
    THEN LET new_name == IF ~ans.given \/ Strip(ans.text) = <<>>
                         THEN fname
                         ELSE Strip(ans.text) \o <<"_">> \o ToStr(index)
         IN  PathJoin(output_directory, new_name \o DotVtt)
    ELSE PathJoin(output_directory, fname \o DotVtt)

\* rename_file; ans is the value of askstring (given = FALSE for None),
\* read only on the branch that prompts
rename_file(output_directory, fname, index, seqv, renv, prefix, ans) ==
    IF seqv
    THEN LET pfx == Strip(prefix)
             new_name == IF pfx # <<>> THEN pfx \o ToStr(index) ELSE ToStr(index)
         IN  PathJoin(output_directory, new_name \o DotVtt)
    ELSE IF renv
    THEN LET new_name == IF ~ans.given \/ Strip(ans.text) = <<>>
                         THEN fname
                         ELSE Strip(ans.text) \o <<"_">> \o ToStr(index)
         IN  PathJoin(output_directory, new_name \o DotVtt)
    ELSE PathJoin(output_directory, fname \o <<"_">> \o ToStr(index) \o DotVtt)

BaseNames == {<<"a">>, <<"m", "o", "v", "i", "e">>}
Prefixes == {<<>>, <<"e", "p">>, <<" ", "e", "p", " ">>, <<" ">>}
Answers ==
    {[given |-> FALSE, text |-> <<>>]}
    \cup {[given |-> TRUE, text |-> t] :
             t \in {<<>>, <<" ">>, <<"n">>, <<" ", "n", " ">>, <<"/", "n">>}}
OutputDirs == {<<"o", "u", "t">>, <<"o", "u", "t", "/">>}

InitRename ==
    /\ rn_file_name \in BaseNames
    /\ rn_index \in 1..MaxIndex
    /\ rn_output_dir \in OutputDirs
    /\ rn_sequential \in BOOLEAN
    /\ rn_rename \in BOOLEAN
    /\ rn_prefix \in Prefixes
    /\ rn_answer \in Answers
    /\ rn_prompted = FALSE
    /\ rn_path = "none"
    /\ LineIdle
    /\ SrtIdle
    /\ DeriveIdle
    /\ PathsIdle
    /\ BatchIdle

\* rename_file returns without asking the user
RenameFileSilent ==
    /\ rn_path = "none"
    /\ ~AsksUser(rn_sequential, rn_rename)
    /\ rn_path' = <<rename_file(rn_output_dir, rn_file_name, rn_index, rn_sequential,
                                rn_rename, rn_prefix, rn_answer)>>
    /\ UNCHANGED <<rn_file_name, rn_index, rn_output_dir, rn_sequential, rn_rename,
                   rn_prefix, rn_answer, rn_prompted>>
    /\ UNCHANGED <<lineVars, srtVars, deriveVars, pathVars, batchVars>>

\* rename_file calls askstring and builds the name from the answer
RenameFileAsking ==
    /\ rn_path = "none"
    /\ AsksUser(rn_sequential, rn_rename)
    /\ rn_prompted' = TRUE
    /\ rn_path' = <<rename_file(rn_output_dir, rn_file_name, rn_index, rn_sequential,
                                rn_rename, rn_prefix, rn_answer)>>
    /\ UNCHANGED <<rn_file_name, rn_index, rn_output_dir, rn_sequential, rn_rename,
                   rn_prefix, rn_answer>>
    /\ UNCHANGED <<lineVars, srtVars, deriveVars, pathVars, batchVars>>

NextRename == RenameFileSilent \/ RenameFileAsking

SpecRename == InitRename /\ [][NextRename]_vars

\* ------------------------------------------------------------------------
\* The output paths of one batch: the loop over `files` in process_files
\* (the submit loop and the sequential loop name the files alike)

\* entries of the input directory; several derive the same base name
DirEntries ==
    {<<"a">> \o ExtVtt, <<"a">> \o ExtMp4Vtt, <<"a", "_", "1">> \o ExtVtt,
     <<"a">> \o ExtVtt \o ExtMp4Vtt,
     <<"a">> \o ExtSrt, <<"a">> \o ExtSrt \o ExtSrt, <<"a", "_", "1">> \o ExtSrt}

\* the values of `files`: the matching entries of a directory, each once,
\* in whatever order os.listdir returns them
FileLists(ch) ==
    {fs \in SeqsUpTo({e \in DirEntries : IsSelected(ch, e)}, MaxFiles) :
        /\ fs # <<>>
        /\ \A i, j \in 1..Len(fs) : i # j => fs[i] # fs[j]}

\* what askstring returns in a batch with interactive rename
PathAnswers ==
    {[given |-> FALSE, text |-> <<>>], [given |-> TRUE, text |-> <<"n">>],
     [given |-> TRUE, text |-> <<"a", "_", "1">>]}

InitPaths ==
    /\ pf_choice \in {"vtt", "srt"}
    /\ pf_files \in FileLists(pf_choice)
    /\ pf_output_dir \in OutputDirs
    /\ pf_sequential \in BOOLEAN
    /\ pf_rename \in BOOLEAN
    /\ pf_prefix \in Prefixes
    /\ pf_index = 1
    /\ pf_paths = <<>>
    /\ LineIdle
    /\ SrtIdle
    /\ DeriveIdle
    /\ RenameIdle
    /\ BatchIdle

\* one iteration of the loop: base_name, then output_path = rename_file(...)
\* with the settings as they are read at this call
AssignPath(ans) ==
    /\ pf_index <= Len(pf_files)
    /\ pf_paths' = Append(pf_paths,
                          rename_file(pf_output_dir,
                                      DeriveBaseName(pf_choice, pf_files[pf_index]),
                                      pf_index, pf_sequential, pf_rename, pf_prefix, ans))
    /\ pf_index' = pf_index + 1
    /\ UNCHANGED <<pf_choice, pf_files, pf_output_dir, pf_sequential, pf_rename,
                   pf_prefix>>
    /\ UNCHANGED <<lineVars, srtVars, deriveVars, renameVars, batchVars>>

\* the iteration under sequential numbering or default naming
AssignPathSilent ==
    /\ ~AsksUser(pf_sequential, pf_rename)
    /\ AssignPath([given |-> FALSE, text |-> <<>>])

\* the iteration under interactive rename: the user's answer decides
AssignPathAsking ==
    /\ AsksUser(pf_sequential, pf_rename)
    /\ \E ans \in PathAnswers : AssignPath(ans)

NextPaths == AssignPathSilent \/ AssignPathAsking

SpecPaths == InitPaths /\ [][NextPaths]_vars

\* ------------------------------------------------------------------------
\* The batch job of VTTTimecodeZeroerApp
CpuCounts == {0, 1, 3, 8}      \* values of os.cpu_count(), 0 standing for None

Min(a, b) == IF a <= b THEN a ELSE b

\* the pool without the cap of four workers
PoolSize_uncapped(cpu) == IF cpu = 0 THEN 2 ELSE cpu

\* min(os.cpu_count() or 2, 4)
PoolSize(cpu) == Min(IF cpu = 0 THEN 2 ELSE cpu, 4)

\* start_processing with the is_processing test left out
StartAccepted_unguarded == TRUE

\* start_processing goes past its first test
StartAccepted == ~is_processing

\* the counters after a result that counts failures as nothing
Tally_drop_failed(result, p, f) == IF result THEN <<p + 1, f>> ELSE <<p, f>>

\* `if result: processed_count += 1 else: failed_count += 1`
Tally(result, p, f) == IF result THEN <<p + 1, f>> ELSE <<p, f + 1>>

RECURSIVE Gcd(_, _)
Gcd(x, y) == IF y = 0 THEN x ELSE Gcd(y, x % y)

\* index / total_files * 100 as a fraction in lowest terms
Percent(k, n) == [num |-> (k * 100) \div Gcd(k * 100, n), den |-> n \div Gcd(k * 100, n)]

Event(e, x, y) == [ev |-> e, a |-> x, b |-> y]

\* process_files_thread whose cleanup is skipped
FinallyEvents_none == <<>>

\* the finally clause of process_files_thread
FinallyEvents == <<Event("processing_complete", 0, 0)>>

\* tasks whose conversion has returned
Done == {f \in 1..MaxFiles : task[f] \in {"ok", "fail"}}
Running == {f \in 1..MaxFiles : task[f] = "running"}
Queued == {f \in 1..MaxFiles : task[f] = "queued"}

\* the two callbacks queued after a result was counted: progress, status
ProgressEvents(k, n, p, f) ==
    <<Event("progress", Percent(k, n).num, Percent(k, n).den), Event("status", p, f)>>

InitBatch ==
    /\ LineIdle
    /\ SrtIdle
    /\ DeriveIdle
    /\ RenameIdle
    /\ PathsIdle
    /\ is_processing = FALSE
    /\ closed = FALSE
    /\ dialog = "none"
    /\ live_threads = 0
    /\ tpc = "none"
    /\ cpu_count = 0
    /\ n_files = 0
    /\ use_threads = TRUE
    /\ sequential_var = FALSE
    /\ rename_var = FALSE
    /\ total_files = 0
    /\ max_workers = 0
    /\ next_index = 1
    /\ prompt = 0
    /\ answered = FALSE
    /\ prompt_log = <<>>
    /\ collected = 0
    /\ processed_count = 0
    /\ failed_count = 0
    /\ task = [f \in 1..MaxFiles |-> "new"]
    /\ conv = [f \in 1..MaxFiles |-> 0]
    /\ after_queue = <<>>
    /\ progress_var = [num |-> 0, den |-> 1]
    /\ progress_max = 100
    /\ progress_label = 0
    /\ status_var = [text |-> "Ready", c |-> 0, f |-> 0]
    /\ emitted = <<>>
    /\ completion = [shown |-> FALSE, c |-> 0, f |-> 0]

\* start_processing while a job runs: the message box, nothing else
StartRejected ==
    /\ ~closed
    /\ ~StartAccepted
    /\ dialog' = "already"
    /\ UNCHANGED <<is_processing, closed, progress_var, progress_max, progress_label,
                   status_var>>
    /\ UNCHANGED <<settingVars, threadVars, poolVars, after_queue, pureVars>>

\* start_processing with a missing or invalid directory: an error box
StartInvalid ==
    /\ ~closed
    /\ StartAccepted
    /\ dialog' = "config_error"
    /\ UNCHANGED <<is_processing, closed, progress_var, progress_max, progress_label,
                   status_var>>
    /\ UNCHANGED <<settingVars, threadVars, poolVars, after_queue, pureVars>>

\* start_processing: the options the user has set, the directory as it is,
\* and a new processing thread with fresh locals.  The message boxes are
\* modal, so none is open when the button is pressed; os.cpu_count() has not
\* been called for this job yet.
StartProcessing ==
    /\ ~closed
    /\ StartAccepted
    /\ \E n \in 0..MaxFiles, ut \in BOOLEAN, sv \in BOOLEAN, rv \in BOOLEAN :
          /\ n_files' = n
          /\ use_threads' = ut
          /\ sequential_var' = sv
          /\ rename_var' = rv
    /\ cpu_count' = 0
    /\ dialog' = "none"
    /\ is_processing' = TRUE
    /\ status_var' = [text |-> "Processing...", c |-> 0, f |-> 0]
    /\ live_threads' = live_threads + 1
    /\ tpc' = "list"
    /\ total_files' = 0
    /\ max_workers' = 0
    /\ next_index' = 1
    /\ prompt' = 0
    /\ answered' = FALSE
    /\ prompt_log' = <<>>
    /\ collected' = 0
    /\ processed_count' = 0
    /\ failed_count' = 0
    /\ task' = [f \in 1..MaxFiles |-> "new"]
    /\ conv' = [f \in 1..MaxFiles |-> 0]
    /\ emitted' = <<>>
    /\ completion' = [shown |-> FALSE, c |-> 0, f |-> 0]
    /\ UNCHANGED <<closed, progress_var, progress_max, progress_label,
                   after_queue, pureVars>>

\* the processing thread ends
ThreadExit ==
    /\ tpc' = "none"
    /\ live_threads' = live_threads - 1

\* process_files: os.listdir raises; the except and finally clauses of
\* process_files_thread run
ListFilesError ==
    /\ ~closed
    /\ tpc = "list"
    /\ after_queue' = Append(after_queue, <<Event("showerror", 0, 0)>> \o FinallyEvents)
    /\ ThreadExit
    /\ UNCHANGED <<guiVars, settingVars, poolVars, pureVars>>
    /\ UNCHANGED <<total_files, max_workers, next_index, prompt, answered, prompt_log,
                   collected,
                   processed_count, failed_count, emitted, completion>>

\* process_files: no matching file
ListFilesEmpty ==
    /\ ~closed
    /\ tpc = "list"
    /\ n_files = 0
    /\ after_queue' = Append(after_queue, <<Event("notice", 0, 0)>> \o FinallyEvents)
    /\ ThreadExit
    /\ UNCHANGED <<guiVars, settingVars, poolVars, pureVars>>
    /\ UNCHANGED <<total_files, max_workers, next_index, prompt, answered, prompt_log,
                   collected,
                   processed_count, failed_count, emitted, completion>>

\* process_files: the files are listed and the execution mode is chosen
ListFiles ==
    /\ ~closed
    /\ tpc = "list"
    /\ n_files > 0
    /\ total_files' = n_files
    /\ after_queue' = Append(after_queue, <<Event("maximum", n_files, 0),
                                              Event("label", n_files, 0)>>)
    /\ IF use_threads /\ n_files > 1
       THEN /\ tpc' = "submit"
            /\ \E cpu \in CpuCounts :
                  /\ cpu_count' = cpu
                  /\ max_workers' = PoolSize(cpu)
       ELSE /\ tpc' = "seq"
            /\ max_workers' = 0
            /\ UNCHANGED cpu_count
    /\ UNCHANGED <<guiVars, n_files, use_threads, sequential_var, rename_var,
                   poolVars, pureVars>>
    /\ UNCHANGED <<live_threads, next_index, prompt, answered, prompt_log,
                   collected,
                   processed_count, failed_count, emitted, completion>>

\* an entry of prompt_log: askstring called ("ask") or returned ("answer")
\* for the file at index f, or executor.submit called for it ("submit")
LogEntry(k, f) == [kind |-> k, file |-> f]

\* rename_file opens the askstring dialog for the file the loop is at
OpenPrompt ==
    /\ ~closed
    /\ tpc \in {"submit", "seq"}
    /\ next_index <= total_files
    /\ AsksUser(sequential_var, rename_var)
    /\ prompt = 0
    /\ prompt' = next_index
    /\ answered' = FALSE
    /\ prompt_log' = Append(prompt_log, LogEntry("ask", next_index))
    /\ UNCHANGED <<guiVars, settingVars, poolVars, after_queue, pureVars>>
    /\ UNCHANGED <<live_threads, tpc, total_files, max_workers, next_index, collected,
                   processed_count, failed_count, emitted, completion>>

\* the user answers (or cancels) the open dialog
AnswerPrompt ==
    /\ ~closed
    /\ prompt # 0
    /\ ~answered
    /\ answered' = TRUE
    /\ prompt_log' = Append(prompt_log, LogEntry("answer", prompt))
    /\ UNCHANGED <<guiVars, settingVars, poolVars, after_queue, pureVars>>
    /\ UNCHANGED <<live_threads, tpc, total_files, max_workers, next_index, prompt,
                   collected, processed_count, failed_count, emitted, completion>>

\* a submit loop that does not wait for rename_file
Renamed_without_waiting == TRUE

\* rename_file has returned for the file the loop is at
Renamed ==
    IF AsksUser(sequential_var, rename_var)
    THEN prompt = next_index /\ answered
    ELSE prompt = 0

\* one iteration of the submit loop: executor.submit
Submit ==
    /\ ~closed
    /\ tpc = "submit"
    /\ next_index <= total_files
    /\ Renamed
    /\ task' = [task EXCEPT ![next_index] = "queued"]
    /\ next_index' = next_index + 1
    /\ prompt' = 0
    /\ answered' = FALSE
    /\ prompt_log' = Append(prompt_log, LogEntry("submit", next_index))
    /\ tpc' = IF next_index = total_files THEN "collect" ELSE "submit"
    /\ UNCHANGED <<guiVars, settingVars, conv, after_queue, pureVars>>
    /\ UNCHANGED <<live_threads, total_files, max_workers, collected,
                   processed_count, failed_count, emitted, completion>>

\* a pool thread takes the oldest queued task and starts its conversion
WorkerStart ==
    /\ ~closed
    /\ Queued # {}
    /\ Cardinality(Running) < max_workers
    /\ LET f == CHOOSE q \in Queued : \A o \in Queued : q <= o
       IN  /\ task' = [task EXCEPT ![f] = "running"]
           /\ conv' = [conv EXCEPT ![f] = @ + 1]
    /\ UNCHANGED <<guiVars, settingVars, threadVars, after_queue, pureVars>>

\* a conversion returns True or False
WorkerFinish ==
    /\ ~closed
    /\ \E f \in Running, result \in BOOLEAN :
          task' = [task EXCEPT ![f] = IF result THEN "ok" ELSE "fail"]
    /\ UNCHANGED <<guiVars, settingVars, threadVars, conv, after_queue, pureVars>>

\* one iteration of the result loop: future.result(), counters, progress
Collect ==
    /\ ~closed
    /\ tpc = "collect"
    /\ collected < total_files
    /\ task[collected + 1] \in {"ok", "fail"}
    /\ LET t == Tally(task[collected + 1] = "ok", processed_count, failed_count)
           evs == ProgressEvents(collected + 1, total_files, t[1], t[2])
       IN  /\ processed_count' = t[1]
           /\ failed_count' = t[2]
           /\ after_queue' = Append(after_queue, evs)
           /\ emitted' = Append(emitted, [num |-> Percent(collected + 1, total_files).num,
                                          den |-> Percent(collected + 1, total_files).den,
                                          c |-> t[1], f |-> t[2]])
    /\ collected' = collected + 1
    /\ UNCHANGED <<guiVars, settingVars, poolVars, pureVars>>
    /\ UNCHANGED <<live_threads, tpc, total_files, max_workers, next_index, prompt,
                   answered, prompt_log, completion>>

\* one iteration of the sequential loop: the conversion runs in the
\* processing thread, then counters and progress
SeqProcess ==
    /\ ~closed
    /\ tpc = "seq"
    /\ next_index <= total_files
    /\ Renamed
    /\ \E result \in BOOLEAN :
          LET t == Tally(result, processed_count, failed_count)
              evs == ProgressEvents(next_index, total_files, t[1], t[2])
          IN  /\ task' = [task EXCEPT ![next_index] = IF result THEN "ok" ELSE "fail"]
              /\ conv' = [conv EXCEPT ![next_index] = @ + 1]
              /\ processed_count' = t[1]
              /\ failed_count' = t[2]
              /\ after_queue' = Append(after_queue, evs)
              /\ emitted' = Append(emitted, [num |-> Percent(next_index, total_files).num,
                                             den |-> Percent(next_index, total_files).den,
                                             c |-> t[1], f |-> t[2]])
    /\ next_index' = next_index + 1
    /\ prompt' = 0
    /\ answered' = FALSE
    /\ UNCHANGED prompt_log
    /\ UNCHANGED <<guiVars, settingVars, pureVars>>
    /\ UNCHANGED <<live_threads, tpc, total_files, max_workers, collected, completion>>

\* the end of process_files (the pool is shut down, the completion message
\* is queued) and the finally clause of process_files_thread
Finish ==
    /\ ~closed
    /\ \/ tpc = "collect" /\ collected = total_files /\ Running = {} /\ Queued = {}
       \/ tpc = "seq" /\ next_index > total_files
    /\ completion' = [shown |-> TRUE, c |-> processed_count, f |-> failed_count]
    /\ after_queue' = Append(after_queue,
                             <<Event("complete", processed_count, failed_count)>>
                             \o FinallyEvents)
    /\ ThreadExit
    /\ UNCHANGED <<guiVars, settingVars, poolVars, pureVars>>
    /\ UNCHANGED <<total_files, max_workers, next_index, prompt, answered, prompt_log,
                   collected,
                   processed_count, failed_count, emitted>>

\* the widgets after the callback e has run
RunCallback(g, e) ==
    [maximum |-> IF e.ev = "maximum" THEN e.a ELSE g.maximum,
     label |-> IF e.ev = "label" THEN e.a ELSE g.label,
     progress |-> IF e.ev = "progress" THEN [num |-> e.a, den |-> e.b] ELSE g.progress,
     status |-> IF e.ev = "status" THEN [text |-> "Processed", c |-> e.a, f |-> e.b]
                ELSE IF e.ev = "processing_complete"
                     THEN [text |-> "Ready", c |-> 0, f |-> 0]
                     ELSE g.status,
     box |-> IF e.ev \in {"showerror", "notice", "complete"} THEN e.ev ELSE g.box,
     busy |-> IF e.ev = "processing_complete" THEN FALSE ELSE g.busy]

RECURSIVE RunCallbacks(_, _)
RunCallbacks(g, es) ==
    IF es = <<>> THEN g ELSE RunCallbacks(RunCallback(g, Head(es)), Tail(es))

\* the Tk main loop runs the callbacks that one step of the processing
\* thread queued with self.after(0, ...), oldest first
HandleEvent ==
    /\ ~closed
    /\ after_queue # <<>>
    /\ LET g == RunCallbacks([maximum |-> progress_max, label |-> progress_label,
                              progress |-> progress_var,
                              status |-> status_var, box |-> dialog,
                              busy |-> is_processing],
                             Head(after_queue))
       IN  /\ progress_max' = g.maximum
           /\ progress_label' = g.label
           /\ progress_var' = g.progress
           /\ status_var' = g.status
           /\ dialog' = g.box
           /\ is_processing' = g.busy
    /\ after_queue' = Tail(after_queue)
    /\ UNCHANGED <<closed, settingVars, threadVars, poolVars, pureVars>>

\* on_closing: the window is destroyed (while processing, after the user
\* confirmed); mainloop returns and the process ends, taking the daemon
\* threads, the pool and the queued callbacks with it
OnClosing ==
    /\ ~closed
    /\ is_processing' = FALSE
    /\ closed' = TRUE
    /\ dialog' = "none"
    /\ live_threads' = 0
    /\ tpc' = "none"
    /\ n_files' = 0
    /\ use_threads' = TRUE
    /\ sequential_var' = FALSE
    /\ rename_var' = FALSE
    /\ total_files' = 0
    /\ max_workers' = 0
    /\ next_index' = 1
    /\ prompt' = 0
    /\ answered' = FALSE
    /\ prompt_log' = <<>>
    /\ collected' = 0
    /\ processed_count' = 0
    /\ failed_count' = 0
    /\ task' = [f \in 1..MaxFiles |-> "new"]
    /\ conv' = [f \in 1..MaxFiles |-> 0]
    /\ after_queue' = <<>>
    /\ progress_var' = [num |-> 0, den |-> 1]
    /\ progress_max' = 100
    /\ progress_label' = 0
    /\ status_var' = [text |-> "Ready", c |-> 0, f |-> 0]
    /\ emitted' = <<>>
    /\ completion' = [shown |-> FALSE, c |-> 0, f |-> 0]
    /\ cpu_count' = 0
    /\ UNCHANGED pureVars

ThreadStep ==
    \/ ListFilesError \/ ListFilesEmpty \/ ListFiles
    \/ OpenPrompt \/ Submit \/ Collect \/ SeqProcess \/ Finish

WorkerStep == WorkerStart \/ WorkerFinish

UserStep == StartRejected \/ StartInvalid \/ StartProcessing \/ AnswerPrompt

NextRunning == UserStep \/ ThreadStep \/ WorkerStep \/ HandleEvent

Next == NextRunning \/ OnClosing

Spec == InitBatch /\ [][Next]_vars

\* a step of the processing thread, of a pool thread, of the main loop, or
\* the user's answer to an open dialog
Progress == ThreadStep \/ WorkerStep \/ HandleEvent \/ AnswerPrompt

\* the workers and the main loop keep running and the user answers the
\* dialogs: whenever one of them can take a step, one of them does; the
\* window is not closed
FairSpec == InitBatch /\ [][NextRunning]_vars /\ WF_vars(Progress)

\* ------------------------------------------------------------------------
\* All start positions of matches of pat in s (overlapping ones included)
Matches(pat, s) == {i \in 1..Len(s) : MatchAt(pat, s, i)}

\* The line with only the hour fields of its first range set to 00
FirstRangeZeroed(l) ==
    LET m == Search(VTT_TIMECODE_PATTERN, l)
    IN  IF m = 0 THEN l
        ELSE [j \in 1..Len(l) |->
                 IF j \in {m, m + 1, m + 17, m + 18} THEN "0" ELSE l[j]]

\* C1 (as claimed): the result is the input unchanged when nothing matches,
\* and otherwise the input with only the two hour fields of the first
\* matched range set to 00, every other character being identical.
C1_OnlyFirstRangeHours == lpc # "in" => adjusted = FirstRangeZeroed(line)

\* C8: applying the VTT rewrite to its own result changes nothing, for
\* lines with no match, one match or several matches.
C8_Idempotent == lpc = "twice" => adjusted2 = adjusted

\* a line with several ranges has been rewritten twice, and the first
\* rewrite changed it
C8_Witness ==
    /\ lpc = "twice"
    /\ Cardinality(Matches(VTT_TIMECODE_PATTERN, line)) >= 2
    /\ adjusted # line

\* The text with the comma of every occurrence of HH:MM:SS,mmm (overlapping
\* occurrences included) turned into a period
EveryCommaReplaced(s) ==
    [j \in 1..Len(s) |->
        IF \E i \in Matches(SRT_TIMECODE_PATTERN, s) : j = i + 8 THEN "." ELSE s[j]]

\* C2 (as claimed): on success the destination is WEBVTT\n\n followed by the
\* source content in which every occurrence of HH:MM:SS,mmm has its comma
\* replaced by a period and every other character is passed through.
C2_EveryOccurrence ==
    srt_result = "ok" => vtt_content = VttHeader \o EveryCommaReplaced(srt_content)

\* C2 (amended): on success the destination is WEBVTT\n\n followed by the
\* source text as read (\r\n and \r read as \n), of the same length; a
\* character differs only where it is the comma of an occurrence, now a
\* period; and every occurrence has its comma replaced unless it overlaps an
\* earlier occurrence whose comma was replaced.
C2_SrtToVtt ==
    srt_result = "ok" =>
        \E u \in {TextRead(srt_content)} :
        \E occ \in {Matches(SRT_TIMECODE_PATTERN, u)} :
        \E body \in {Slice(vtt_content, Len(VttHeader) + 1, Len(vtt_content))} :
            /\ Len(vtt_content) = Len(VttHeader) + Len(u)
            /\ Slice(vtt_content, 1, Len(VttHeader)) = VttHeader
            /\ \A j \in 1..Len(u) :
                  body[j] # u[j] =>
                      /\ u[j] = ","
                      /\ body[j] = "."
                      /\ \E i \in occ : j = i + 8
            /\ \A i \in occ :
                  \/ body[i + 8] = "."
                  \/ \E e \in occ : e < i /\ i < e + Len(SRT_TIMECODE_PATTERN)
                                   /\ body[e + 8] = "."

\* a file with a full range on one line (two occurrences) was converted
C2_Witness ==
    /\ srt_result = "ok"
    /\ \E ls \in {SplitLines(TextRead(srt_content))} :
           \E n \in 1..Len(ls) :
               Cardinality(Matches(SRT_TIMECODE_PATTERN, ls[n])) >= 2
    /\ vtt_content # VttHeader \o srt_content

\* The name without its trailing suffix only
TrailingSuffixRemoved(ch, name) ==
    IF ch = "vtt"
    THEN IF EndsWith(name, ExtMp4Vtt) THEN Slice(name, 1, Len(name) - Len(ExtMp4Vtt))
         ELSE Slice(name, 1, Len(name) - Len(ExtVtt))
    ELSE Slice(name, 1, Len(name) - Len(ExtSrt))

\* C7 (as claimed): for every selected file the derived base name is the
\* file name with only its trailing suffix removed (.mp4.vtt if present,
\* else .vtt, for zero-hour-VTT; .srt for srt-to-vtt); everything before
\* that suffix is kept.
C7_OnlyTrailingSuffix ==
    selected = "yes" => base_name = TrailingSuffixRemoved(choice, file_name)

\* p is s without its leading and trailing whitespace
IsStripped(p, s) ==
    /\ p = <<>> \/ (p[1] \notin Whitespace /\ p[Len(p)] \notin Whitespace)
    /\ \E a \in 0..Len(s) : \E b \in 0..(Len(s) - a) :
          /\ a + Len(p) + b = Len(s)
          /\ Slice(s, a + 1, a + Len(p)) = p
          /\ \A j \in (1..a) \cup ((Len(s) - b + 1)..Len(s)) : s[j] \in Whitespace

IsBlank(ans) == ~ans.given \/ \A j \in 1..Len(ans.text) : ans.text[j] \in Whitespace

\* C6 (as claimed): sequential numbering gives {prefix}{index}.vtt with the
\* prefix as configured and no prompt; else interactive rename gives the base
\* name for a blank or missing answer and {suppliedName}_{index}.vtt for any
\* other; else {base}_{index}.vtt; the name is joined with the directory.
C6_PolicyAsConfigured ==
    rn_path # "none" =>
        LET idx == ToStr(rn_index)
            name == IF rn_sequential THEN rn_prefix \o idx \o DotVtt
                    ELSE IF rn_rename
                    THEN IF IsBlank(rn_answer) THEN rn_file_name \o DotVtt
                         ELSE rn_answer.text \o <<"_">> \o idx \o DotVtt
                    ELSE rn_file_name \o <<"_">> \o idx \o DotVtt
        IN  /\ rn_path = <<PathJoin(rn_output_dir, name)>>
            /\ rn_sequential => ~rn_prompted

\* C6 (amended): as claimed, with the prefix and the supplied name taken
\* without their leading and trailing whitespace.
C6_PolicyStripped ==
    rn_path # "none" =>
        \E pfx \in {Slice(rn_prefix, a, b) : a \in 1..(Len(rn_prefix) + 1),
                                           b \in 0..Len(rn_prefix)} :
        \E sup \in {Slice(rn_answer.text, a, b) : a \in 1..(Len(rn_answer.text) + 1),
                                                b \in 0..Len(rn_answer.text)} :
            /\ IsStripped(pfx, rn_prefix)
            /\ IsStripped(sup, rn_answer.text)
            /\ LET idx == ToStr(rn_index)
                   name == IF rn_sequential THEN pfx \o idx \o DotVtt
                           ELSE IF rn_rename
                           THEN IF IsBlank(rn_answer) THEN rn_file_name \o DotVtt
                                ELSE sup \o <<"_">> \o idx \o DotVtt
                           ELSE rn_file_name \o <<"_">> \o idx \o DotVtt
               IN  rn_path = <<PathJoin(rn_output_dir, name)>>
            /\ rn_sequential => ~rn_prompted
            /\ rn_prompted <=> (~rn_sequential /\ rn_rename)

\* rename_file ran with both options on, a prefix with surrounding blanks
\* and a two-digit index
C6_Witness ==
    /\ rn_path # "none"
    /\ rn_sequential /\ rn_rename
    /\ rn_prefix = <<" ", "e", "p", " ">>
    /\ rn_index >= 10

Max(a, b) == IF a >= b THEN a ELSE b

\* C3: when a batch over N >= 1 files finishes, in either mode, every file
\* was converted exactly once, processed_count + failed_count = N and
\* failed_count is the number of conversions that returned failure; no file
\* is ever converted twice.
C3_EveryFileOnce ==
    /\ \A f \in 1..MaxFiles : conv[f] <= 1
    /\ completion.shown =>
          /\ total_files >= 1
          /\ \A f \in 1..total_files : conv[f] = 1 /\ task[f] \in {"ok", "fail"}
          /\ processed_count + failed_count = total_files
          /\ failed_count = Cardinality({f \in 1..total_files : task[f] = "fail"})
          /\ completion.c = processed_count /\ completion.f = failed_count

\* a parallel batch finished in which the first file failed and a later
\* one was converted
C3_Witness ==
    /\ completion.shown
    /\ max_workers >= 2
    /\ task[1] = "fail"
    /\ processed_count >= 1

\* C4: at most one processing thread exists in every state, and while
\* is_processing is true no step (a start request included) creates a
\* thread, changes the job's settings or takes back its counters,
\* conversions or progress emissions.
C4_SingleJob ==
    /\ [](live_threads <= 1)
    /\ [][(is_processing /\ ~closed') =>
             /\ live_threads' <= live_threads
             /\ <<n_files, use_threads, sequential_var, rename_var>>' =
                    <<n_files, use_threads, sequential_var, rename_var>>
             /\ processed_count' >= processed_count
             /\ failed_count' >= failed_count
             /\ \A f \in 1..MaxFiles : conv'[f] >= conv[f]
             /\ Len(emitted') >= Len(emitted)]_vars

\* a start request was turned down while the job had counted a result
C4_Witness ==
    /\ dialog = "already"
    /\ is_processing
    /\ live_threads = 1
    /\ processed_count + failed_count >= 1

\* C5 (as claimed): every job that enters Running reaches Complete
\* (is_processing goes back to false, a start is accepted again), and a job
\* that raised an internal error reports its counts together with the error.
C5_CompleteWithCounts ==
    /\ is_processing ~> (~is_processing /\ StartAccepted)
    /\ [](dialog = "showerror" => completion.shown)

\* C5 (amended): every job that enters Running reaches Complete; a job that
\* raised an internal error reports the error only, its completion message
\* with the counts is never queued.
C5_RunningReachesComplete ==
    /\ is_processing ~> (~is_processing /\ StartAccepted)
    /\ [](dialog = "showerror" => ~completion.shown)

\* a job that hit an internal error was finalized and its error shown
C5_Witness ==
    /\ dialog = "showerror"
    /\ ~is_processing
    /\ live_threads = 0

\* C9 (as claimed): every progress value, when it is emitted, is (tasks
\* completed so far) / N and the counts emitted with it sum to the tasks
\* completed so far; the values strictly increase; the batch finishes
\* having emitted N values, the last being N/N.
C9_ProgressIsCompleted ==
    [][/\ Len(emitted') = Len(emitted) + 1 =>
             LET e == emitted'[Len(emitted')]
                 completed == Cardinality(Done')
             IN  /\ e.num * total_files = 100 * completed * e.den
                 /\ e.c + e.f = completed
                 /\ Len(emitted) >= 1 =>
                        emitted[Len(emitted)].num * e.den < e.num * emitted[Len(emitted)].den
       /\ (completion'.shown /\ ~completion.shown) =>
             /\ Len(emitted) = total_files
             /\ emitted[total_files].num = 100 * emitted[total_files].den]_vars

\* min(parallelism, 4), 2 when the parallelism is unknown
ExpectedPool == IF cpu_count = 0 THEN 2 ELSE IF cpu_count >= 4 THEN 4 ELSE cpu_count

\* the execution mode and the bound on running conversions
ModeAndBound(size) ==
    /\ tpc \in {"submit", "collect"} =>
          use_threads /\ total_files > 1 /\ max_workers = size
    /\ tpc = "seq" =>
          /\ ~(use_threads /\ total_files > 1)
          /\ Running = {} /\ Queued = {}
          /\ \A f \in 1..total_files : conv[f] = IF f < next_index THEN 1 ELSE 0
    /\ Running # {} => Cardinality(Running) <= size

\* C10 (as claimed): the pool is used exactly when concurrency is enabled
\* and more than one file is queued, otherwise the files run one at a time
\* in order; the pool size is min(parallelism, 4) and never below 2; no more
\* conversions than that run at the same time.
C10_PoolAtLeastTwo == ModeAndBound(Max(2, ExpectedPool))

\* C10 (amended): as claimed, with the pool size min(parallelism, 4), taking
\* 2 only when the parallelism is unknown (so 1 for a parallelism of 1).
C10_PoolSize == ModeAndBound(ExpectedPool)

\* with a parallelism of 1 the pool runs one conversion while another
\* task waits in its queue
C10_Witness ==
    /\ tpc = "collect"
    /\ cpu_count = 1
    /\ Cardinality(Running) = 1
    /\ Queued # {}

\* ------------------------------------------------------------------------
\* the entries of kind k in the first n entries of prompt_log
LogUpTo(k, n) == {j \in 1..n : prompt_log[j].kind = k}

\* the files of the entries of kind k, in the order of the log
RECURSIVE FilesOf(_, _)
FilesOf(k, lg) ==
    IF lg = <<>> THEN <<>>
    ELSE IF Head(lg).kind = k THEN <<Head(lg).file>> \o FilesOf(k, Tail(lg))
         ELSE FilesOf(k, Tail(lg))

\* interactive rename is combined with parallel execution in the running job
InteractiveParallel == max_workers > 0 /\ AsksUser(sequential_var, rename_var)

\* C11: when interactive rename is combined with parallel execution, at
\* every moment of the job at most one rename prompt was outstanding (asked
\* and not yet answered), the prompts were issued for the files 1, 2, 3, ...
\* in enumeration order, each submitted task's file had its prompt answered
\* before the submission, and every task handed to the pool is a logged
\* submission.
C11_PromptsSerialized ==
    InteractiveParallel =>
        /\ \A n \in 0..Len(prompt_log) :
              Cardinality(LogUpTo("ask", n)) - Cardinality(LogUpTo("answer", n)) \in {0, 1}
        /\ (prompt # 0 /\ ~answered) <=>
              Cardinality(LogUpTo("ask", Len(prompt_log)))
                  > Cardinality(LogUpTo("answer", Len(prompt_log)))
        /\ FilesOf("ask", prompt_log) = [j \in 1..Len(FilesOf("ask", prompt_log)) |-> j]
        /\ \A n \in LogUpTo("submit", Len(prompt_log)) :
              \E a \in LogUpTo("answer", n) : prompt_log[a].file = prompt_log[n].file
        /\ \A f \in 1..MaxFiles :
              task[f] # "new" <=>
                  \E n \in LogUpTo("submit", Len(prompt_log)) : prompt_log[n].file = f

\* C11 witness: a parallel job with interactive rename has asked about,
\* got the answer for and submitted each of at least two files, and a
\* conversion is running
C11_Witness ==
    /\ InteractiveParallel
    /\ total_files >= 2
    /\ tpc = "collect"
    /\ Len(prompt_log) = 3 * total_files
    /\ Running # {}

\* ------------------------------------------------------------------------
\* two files of the batch were given the same output path
SamePath(i, j) == i # j /\ pf_paths[i] = pf_paths[j]

\* two files of the batch derive the same base name
SameBase(i, j) ==
    /\ i # j
    /\ DeriveBaseName(pf_choice, pf_files[i]) = DeriveBaseName(pf_choice, pf_files[j])

====
